---------------------------- MODULE Spec2Model ----------------------------
(***************************************************************************)
(* Inventory ledger and allocation engine of warehouse-system-api.         *)
(*                                                                         *)
(* The database is three tables: product, warehouse_item ("StockRecord")   *)
(* and movement.  Every request handler runs inside one                    *)
(* `with session.begin():` block, so in the sequential specification Spec  *)
(* one handler is one atomic action.  SpecConc splits stock_out into the   *)
(* statements it sends to the database, to study two sessions at once.     *)
(* SpecAdmin adds the PATCH and DELETE of stock records, and SpecQuery     *)
(* runs the two aggregate queries on the tables the stock operations       *)
(* leave.                                                                  *)
(***************************************************************************)
EXTENDS Integers, Sequences, FiniteSets, TLC

VARIABLES
    products,     \* product table: product id -> sku
    items,        \* warehouse_item table: item id -> row
    movements,    \* movement table, in creation order
    nextItemId,   \* next auto-increment id of warehouse_item
    last,         \* the request handled by the latest step and its outcome
    pre,          \* warehouse_item and movement tables before the latest step
    sess          \* SpecConc only: the two open sessions

vars == <<products, items, movements, nextItemId, last, pre, sess>>

-----------------------------------------------------------------------------
(* Bounds of the model *)

MaxQty == 3           \* largest quantity of one request
MaxMovements == 5     \* cap on the length of the movement table
MaxItems == 3         \* cap on the warehouse_item ids handed out
MaxAdminMovements == 4  \* SpecAdmin: stock moves only below this table length
MaxProducts == 3        \* cap on the product ids handed out
MaxCatalogMovements == 2  \* SpecCatalog: stock moves only below this table length

(* Program constants *)

DefaultSafetyStock == 5

-----------------------------------------------------------------------------
(* Values *)

None == "None"                         \* Python's None for an optional string
Locations == {"A1", "B2"}
ProductIds == {1, 2}                   \* the products of the catalog
RequestProductIds == {1, 3}            \* product_id of a request: 3 is unknown
Quantities == {1, MaxQty}              \* quantity of a request: conint(gt=0)

(* An optional integer of a request body is the empty set when the field  *)
(* is not set and {v} when it carries v.                                  *)
Unset == {}

(* An optional integer sent as null: the fields are conint(ge=0), so no    *)
(* value of a body is negative.                                            *)
NullInt == {-1}

MovIN == "IN"      \* MovementType.IN
MovOUT == "OUT"    \* MovementType.OUT

Min(a, b) == IF a <= b THEN a ELSE b

RECURSIVE SumSeq(_)
SumSeq(s) == IF s = <<>> THEN 0 ELSE Head(s) + SumSeq(Tail(s))

RECURSIVE SortedSeq(_)
(* The ids of S in ascending order: ORDER BY warehouse_item.id *)
SortedSeq(S) ==
    IF S = {} THEN <<>>
    ELSE LET m == CHOOSE x \in S : \A y \in S : x <= y
         IN <<m>> \o SortedSeq(S \ {m})

-----------------------------------------------------------------------------
(* Rows *)

(* Mutant: the new row is written without the default safety stock *)
WarehouseItemNoDefault(p, q, loc) ==
    [product_id |-> p, quantity |-> q, location |-> loc, safety_stock |-> 0]

WarehouseItem(p, q, loc) ==
    [product_id |-> p, quantity |-> q, location |-> loc,
     safety_stock |-> DefaultSafetyStock]

(* Mutant: every movement is written with movement_type IN *)
MovementAlwaysIn(p, id, type, q) ==
    [product_id |-> p, warehouse_item_id |-> id, movement_type |-> MovIN,
     quantity |-> q]

Movement(p, id, type, q) ==
    [product_id |-> p, warehouse_item_id |-> id, movement_type |-> type,
     quantity |-> q]

(* Mutant: the lookup filters on the location only *)
ItemsAtAnyProduct(its, p, loc) ==
    {id \in DOMAIN its : its[id].location = loc}

(* select(WarehouseItem).where(product_id == p, location == loc) *)
ItemsAt(its, p, loc) ==
    {id \in DOMAIN its : its[id].product_id = p /\ its[id].location = loc}

RECURSIVE LargestFirst(_, _)
(* The ids of S by descending quantity, ties in ascending id *)
LargestFirst(its, S) ==
    IF S = {} THEN <<>>
    ELSE LET id == CHOOSE x \in S :
                       \A y \in S : \/ its[x].quantity > its[y].quantity
                                    \/ its[x].quantity = its[y].quantity /\ x <= y
         IN <<id>> \o LargestFirst(its, S \ {id})

(* Mutant: the available records are walked in descending id *)
AvailableItemsDesc(its, p) ==
    LET asc == SortedSeq({id \in DOMAIN its :
                             its[id].product_id = p /\ its[id].quantity > 0})
    IN [i \in 1..Len(asc) |-> asc[Len(asc) + 1 - i]]

(* Mutant: the records at quantity 0 are selected too *)
AvailableItemsAll(its, p) ==
    SortedSeq({id \in DOMAIN its : its[id].product_id = p})

(* Mutant: the available records are walked from the fullest *)
AvailableItemsByQuantity(its, p) ==
    LargestFirst(its, {id \in DOMAIN its :
                          its[id].product_id = p /\ its[id].quantity > 0})

(* select(WarehouseItem).where(product_id == p, quantity > 0).order_by(id) *)
AvailableItems(its, p) ==
    SortedSeq({id \in DOMAIN its : its[id].product_id = p /\ its[id].quantity > 0})

(* sum(item.quantity for item in available_items) *)
TotalAvailable(its, avail) ==
    SumSeq([i \in 1..Len(avail) |-> its[avail[i]].quantity])

(* Mutant: the whole record is taken whatever remains to deduct *)
DeductWholeRecord(quantity, remaining) == quantity

(* deduct_amount = min(item.quantity, remaining_to_deduct) *)
DeductAmount(quantity, remaining) == Min(quantity, remaining)

(* Mutant: the comparison of the sufficiency check is reversed *)
InsufficientReversed(available, requested) == available > requested

(* Mutant: the sufficiency check is off by one *)
InsufficientOffByOne(available, requested) == available + 1 < requested

(* if item_to_update.quantity < quantity / if total_available < quantity *)
Insufficient(available, requested) == available < requested

(* Mutant: the quantity is assigned instead of added *)
IncrementAssign(its, id, q) == [its EXCEPT ![id].quantity = q]

(* existing_item.quantity += item_request.quantity *)
Increment(its, id, q) == [its EXCEPT ![id].quantity = @ + q]

(* item.quantity -= deduct_amount *)
Decrement(its, id, q) == [its EXCEPT ![id].quantity = @ - q]

RECURSIVE WalkEveryRecord(_, _, _, _, _, _)
(* Mutant: the loop does not stop when nothing remains to deduct *)
WalkEveryRecord(its, movs, updated, avail, i, remaining) ==
    IF i > Len(avail)
    THEN [items |-> its, movements |-> movs, updated |-> updated]
    ELSE LET id == avail[i]
             deduct == DeductAmount(its[id].quantity, remaining)
         IN WalkEveryRecord(Decrement(its, id, deduct),
                            Append(movs, Movement(its[id].product_id, id, MovOUT, deduct)),
                            Append(updated, id),
                            avail, i + 1, remaining - deduct)

RECURSIVE Walk(_, _, _, _, _, _)
(* The for loop of the untargeted stock_out over available_items[i..]:      *)
(* the tables and the list updated_items once the loop has ended.           *)
Walk(its, movs, updated, avail, i, remaining) ==
    IF i > Len(avail) \/ remaining = 0
    THEN [items |-> its, movements |-> movs, updated |-> updated]
    ELSE LET id == avail[i]
             deduct == DeductAmount(its[id].quantity, remaining)
         IN Walk(Decrement(its, id, deduct),
                 Append(movs, Movement(its[id].product_id, id, MovOUT, deduct)),
                 Append(updated, id),
                 avail, i + 1, remaining - deduct)

-----------------------------------------------------------------------------
(* History kept for the properties *)

(* The body of a PATCH /warehouse-items/{item_id} *)
WarehouseItemUpdate(q, loc, safety) ==
    [quantity |-> q, location |-> loc, safety_stock |-> safety]

NoPatch == WarehouseItemUpdate(Unset, None, Unset)

Request(op, p, id, q, loc) ==
    [op |-> op, product_id |-> p, item_id |-> id, quantity |-> q, location |-> loc,
     patch |-> NoPatch]

PatchRequest(id, item) ==
    [op |-> "update_warehouse_item", product_id |-> 0, item_id |-> id,
     quantity |-> 0, location |-> None, patch |-> item]

(* outcome is "ok" or the class of the exception raised, detail the     *)
(* exception's detail, ret the id of the row returned.                  *)
Outcome(req, outcome, detail, ret) ==
    [op |-> req.op, product_id |-> req.product_id, item_id |-> req.item_id,
     quantity |-> req.quantity, location |-> req.location, patch |-> req.patch,
     outcome |-> outcome, detail |-> detail, ret |-> ret]

Snapshot == [items |-> items, movements |-> movements]

NoRequest == Outcome(Request("none", 0, 0, 0, None), "none", "", 0)

-----------------------------------------------------------------------------
(* Sequential specification: one handler per step *)

(* The catalog holds products 1 and 2, and product 2 has had one stock-in   *)
(* of 1 at "A1"; the requests of the model address product 1 or an unknown *)
(* product, so product 2 is the bystander of every request.                *)
Init ==
    /\ products = [p \in ProductIds |-> IF p = 1 THEN "SKU1" ELSE "SKU2"]
    /\ items = (1 :> WarehouseItem(2, 1, "A1"))
    /\ movements = <<Movement(2, 1, MovIN, 1)>>
    /\ nextItemId = 2
    /\ last = NoRequest
    /\ pre = [items |-> items, movements |-> movements]
    /\ sess = <<>>

(* A handler that raises: the transaction rolls back *)
Raise(req, error, detail) ==
    /\ last' = Outcome(req, error, detail, 0)
    /\ UNCHANGED <<products, items, movements, nextItemId, sess>>

(* Mutant: stock_in does not look the product up *)
StockInUnchecked(p, q, loc) ==
    LET req == Request("stock_in", p, 0, q, loc) IN
    /\ pre' = Snapshot
    /\ Len(movements) < MaxMovements
    /\ IF ItemsAt(items, p, loc) # {}
       THEN \E id \in ItemsAt(items, p, loc) :
                /\ items' = Increment(items, id, q)
                /\ movements' = Append(movements, Movement(p, id, MovIN, q))
                /\ last' = Outcome(req, "ok", "", id)
                /\ UNCHANGED <<products, nextItemId, sess>>
       ELSE /\ nextItemId <= MaxItems
            /\ items' = items @@ (nextItemId :> WarehouseItem(p, q, loc))
            /\ movements' = Append(movements, Movement(p, nextItemId, MovIN, q))
            /\ nextItemId' = nextItemId + 1
            /\ last' = Outcome(req, "ok", "", nextItemId)
            /\ UNCHANGED <<products, sess>>

StockIn(p, q, loc) ==
    LET req == Request("stock_in", p, 0, q, loc) IN
    /\ pre' = Snapshot
    /\ IF p \notin DOMAIN products
       THEN Raise(req, "ProductNotFoundException", "product does not exist")
       ELSE /\ Len(movements) < MaxMovements
            /\ IF ItemsAt(items, p, loc) # {}
               THEN \E id \in ItemsAt(items, p, loc) :
                        /\ items' = Increment(items, id, q)
                        /\ movements' = Append(movements, Movement(p, id, MovIN, q))
                        /\ last' = Outcome(req, "ok", "", id)
                        /\ UNCHANGED <<products, nextItemId, sess>>
               ELSE /\ nextItemId <= MaxItems
                    /\ items' = items @@ (nextItemId :> WarehouseItem(p, q, loc))
                    /\ movements' =
                           Append(movements, Movement(p, nextItemId, MovIN, q))
                    /\ nextItemId' = nextItemId + 1
                    /\ last' = Outcome(req, "ok", "", nextItemId)
                    /\ UNCHANGED <<products, sess>>

(* Mutant: a targeted stock-out judges the sufficiency on the total of the *)
(* product over all its locations.                                         *)
StockOutTargetedByTotal(req) ==
    LET p == req.product_id
        q == req.quantity
        found == ItemsAt(items, p, req.location)
    IN IF found = {}
       THEN Raise(req, "ProductNotFoundException", "no record at the location")
       ELSE \E id \in found :
                IF Insufficient(TotalAvailable(items, AvailableItems(items, p)), q)
                THEN Raise(req, "InsufficientStockException",
                           "stock at the location is insufficient")
                ELSE /\ Len(movements) < MaxMovements
                     /\ items' = Decrement(items, id, Min(q, items[id].quantity))
                     /\ movements' = Append(movements, Movement(p, id, MovOUT, q))
                     /\ last' = Outcome(req, "ok", "", id)
                     /\ UNCHANGED <<products, nextItemId, sess>>

(* Mutant: the absent record is reported with the default detail of        *)
(* ProductNotFoundException.                                               *)
StockOutTargetedDefaultDetail(req) ==
    LET p == req.product_id
        q == req.quantity
        found == ItemsAt(items, p, req.location)
    IN IF found = {}
       THEN Raise(req, "ProductNotFoundException", "product does not exist")
       ELSE \E id \in found :
                IF Insufficient(items[id].quantity, q)
                THEN Raise(req, "InsufficientStockException",
                           "stock at the location is insufficient")
                ELSE /\ Len(movements) < MaxMovements
                     /\ items' = Decrement(items, id, q)
                     /\ movements' = Append(movements, Movement(p, id, MovOUT, q))
                     /\ last' = Outcome(req, "ok", "", id)
                     /\ UNCHANGED <<products, nextItemId, sess>>

StockOutTargeted(req) ==
    LET p == req.product_id
        q == req.quantity
        found == ItemsAt(items, p, req.location)
    IN IF found = {}
       THEN Raise(req, "ProductNotFoundException", "no record at the location")
       ELSE \E id \in found :
                IF Insufficient(items[id].quantity, q)
                THEN Raise(req, "InsufficientStockException",
                           "stock at the location is insufficient")
                ELSE /\ Len(movements) < MaxMovements
                     /\ items' = Decrement(items, id, q)
                     /\ movements' = Append(movements, Movement(p, id, MovOUT, q))
                     /\ last' = Outcome(req, "ok", "", id)
                     /\ UNCHANGED <<products, nextItemId, sess>>

(* Mutant: the records are walked first and the shortage is found after   *)
(* the deductions have been written.                                       *)
StockOutUntargetedLateCheck(req) ==
    LET p == req.product_id
        q == req.quantity
        avail == AvailableItems(items, p)
        done == Walk(items, movements, <<>>, avail, 1, q)
    IN IF avail = <<>>
       THEN Raise(req, "ProductNotFoundException", "no stock at any location")
       ELSE /\ Len(done.movements) <= MaxMovements
            /\ items' = done.items
            /\ movements' = done.movements
            /\ last' = IF Insufficient(TotalAvailable(items, avail), q)
                       THEN Outcome(req, "InsufficientStockException",
                                    "total stock is insufficient", 0)
                       ELSE Outcome(req, "ok", "", done.updated[1])
            /\ UNCHANGED <<products, nextItemId, sess>>

(* Mutant: the record returned is the last one updated *)
StockOutUntargetedReturnsLast(req) ==
    LET p == req.product_id
        q == req.quantity
        avail == AvailableItems(items, p)
        done == Walk(items, movements, <<>>, avail, 1, q)
    IN IF avail = <<>>
       THEN Raise(req, "ProductNotFoundException", "no stock at any location")
       ELSE IF Insufficient(TotalAvailable(items, avail), q)
       THEN Raise(req, "InsufficientStockException", "total stock is insufficient")
       ELSE /\ Len(done.movements) <= MaxMovements
            /\ items' = done.items
            /\ movements' = done.movements
            /\ last' = Outcome(req, "ok", "",
                               IF done.updated # <<>>
                               THEN done.updated[Len(done.updated)] ELSE 0)
            /\ UNCHANGED <<products, nextItemId, sess>>

StockOutUntargeted(req) ==
    LET p == req.product_id
        q == req.quantity
        avail == AvailableItems(items, p)
        done == Walk(items, movements, <<>>, avail, 1, q)
    IN IF avail = <<>>
       THEN Raise(req, "ProductNotFoundException", "no stock at any location")
       ELSE IF Insufficient(TotalAvailable(items, avail), q)
       THEN Raise(req, "InsufficientStockException", "total stock is insufficient")
       ELSE /\ Len(done.movements) <= MaxMovements
            /\ items' = done.items
            /\ movements' = done.movements
            /\ last' = Outcome(req, "ok", "",
                               IF done.updated # <<>> THEN done.updated[1] ELSE 0)
            /\ UNCHANGED <<products, nextItemId, sess>>

StockOut(p, q, loc) ==
    LET req == Request("stock_out", p, 0, q, loc) IN
    /\ pre' = Snapshot
    /\ IF p \notin DOMAIN products
       THEN Raise(req, "ProductNotFoundException", "product does not exist")
       ELSE IF loc # None
       THEN StockOutTargeted(req)
       ELSE StockOutUntargeted(req)

Next ==
    \/ \E p \in RequestProductIds, q \in Quantities, loc \in Locations :
           StockIn(p, q, loc)
    \/ \E p \in RequestProductIds, q \in Quantities, loc \in Locations \cup {None} :
           StockOut(p, q, loc)

Spec == Init /\ [][Next]_vars

-----------------------------------------------------------------------------
(* Aggregation: get_low_stock_alerts and get_inventory_overview.           *)
(*                                                                         *)
(* Neither query has an ORDER BY, so the database returns the rows in an   *)
(* order of its choice: a result list is one of the orderings of its rows. *)

(* Product.name of the two products of the catalog, letter by letter *)
ProductNames ==
    (1 :> <<"N", "u", "t">>) @@ (2 :> <<"B", "o", "l", "t">>)

(* The lists that hold every element of S once *)
Orderings(S) ==
    {f \in [1..Cardinality(S) -> S] :
        \A i, j \in 1..Cardinality(S) : f[i] = f[j] => i = j}

(* LocationQuantity(location=..., quantity=...) of a warehouse_item row *)
LocationQuantity(row) == [location |-> row.location, quantity |-> row.quantity]

(* The rows of warehouse_item that the join gives product p *)
JoinedItems(its, p) == SortedSeq({id \in DOMAIN its : its[id].product_id = p})

(* func.sum(WarehouseItem.quantity) over the rows of a group *)
SumOfQuantity(its, rows) ==
    SumSeq([i \in 1..Len(rows) |-> its[rows[i]].quantity])

(* func.sum(WarehouseItem.safety_stock) over the rows of a group *)
SumOfSafetyStock(its, rows) ==
    SumSeq([i \in 1..Len(rows) |-> its[rows[i]].safety_stock])

(* Mutant: the HAVING clause compares with <= *)
HavingLowStockInclusive(total_quantity, total_safety_stock) ==
    total_quantity <= total_safety_stock

(* .having(func.sum(quantity) < func.sum(safety_stock)) *)
HavingLowStock(total_quantity, total_safety_stock) ==
    total_quantity < total_safety_stock

(* The first query of get_low_stock_alerts: product joined to               *)
(* warehouse_item, grouped by Product.id, with the HAVING clause.  A        *)
(* product without a row has no group.                                      *)
LowStockProducts(prods, its) ==
    {[product_id |-> p, product_name |-> ProductNames[p], sku |-> prods[p],
      total_quantity |-> SumOfQuantity(its, JoinedItems(its, p)),
      total_safety_stock |-> SumOfSafetyStock(its, JoinedItems(its, p))] :
        p \in {x \in DOMAIN prods :
                  /\ JoinedItems(its, x) # <<>>
                  /\ HavingLowStock(SumOfQuantity(its, JoinedItems(its, x)),
                                    SumOfSafetyStock(its, JoinedItems(its, x)))}}

(* Mutant: the second query returns the records under their own safety     *)
(* stock only.                                                             *)
LocationItemsUnderSafety(its, p) ==
    {id \in DOMAIN its : its[id].product_id = p
                         /\ its[id].quantity < its[id].safety_stock}

(* The second query: select(location, quantity).where(product_id == p) *)
LocationItems(its, p) == {id \in DOMAIN its : its[id].product_id = p}

(* LowStockAlert(...) for a row of the first query and the rows of the     *)
(* second one in the order the database returned them.                     *)
LowStockAlert(row, its, location_items) ==
    [product_id |-> row.product_id, product_name |-> row.product_name,
     sku |-> row.sku,
     current_stock |-> row.total_quantity,
     safety_stock |-> row.total_safety_stock,
     location_details |->
         [i \in 1..Len(location_items) |-> LocationQuantity(its[location_items[i]])]]

(* The ways the database may order the rows of the second query for each   *)
(* of the products in ps.                                                  *)
DetailOrderings(its, ps) ==
    {f \in [ps -> UNION {Orderings(LocationItems(its, p)) : p \in ps}] :
        \A p \in ps : f[p] \in Orderings(LocationItems(its, p))}

(* get_low_stock_alerts in one step: the request's session is the only one *)
GetLowStockAlerts ==
    LET req == Request("get_low_stock_alerts", 0, 0, 0, None)
        low == LowStockProducts(products, items)
    IN /\ pre' = Snapshot
       /\ \E low_stock_products \in Orderings(low) :
          \E details \in DetailOrderings(items, {r.product_id : r \in low}) :
              last' = Outcome(req, "ok", "",
                          [i \in 1..Len(low_stock_products) |->
                              LowStockAlert(low_stock_products[i], items,
                                            details[low_stock_products[i].product_id])])
       /\ UNCHANGED <<products, items, movements, nextItemId, sess>>

(* str.lower() of one letter, for the letters of the model *)
LowerChar(c) ==
    CASE c = "N" -> "n"
      [] c = "U" -> "u"
      [] c = "T" -> "t"
      [] c = "B" -> "b"
      [] c = "O" -> "o"
      [] c = "L" -> "l"
      [] OTHER -> c

Lower(s) == [i \in 1..Len(s) |-> LowerChar(s[i])]

(* Product.name.ilike(f"%{product_name}%"): a case-insensitive substring   *)
(* match (the patterns of the model hold letters only).                    *)
ILike(name, product_name) ==
    \E i \in 0..(Len(name) - Len(product_name)) :
        SubSeq(Lower(name), i + 1, i + Len(product_name)) = Lower(product_name)

(* sku.upper() of the sku values a request of the model carries *)
Upper(sku) ==
    CASE sku = "sku1" -> "SKU1"
      [] sku = "sku2" -> "SKU2"
      [] sku = "sku3" -> "SKU3"
      [] OTHER -> sku

(* The rows of select(WarehouseItem, Product).join(Product) that pass the  *)
(* filters; a filter that is None or empty is not applied.                 *)
OverviewRows(prods, its, product_name, sku) ==
    {id \in DOMAIN its :
        /\ its[id].product_id \in DOMAIN prods
        /\ product_name # <<>> => ILike(ProductNames[its[id].product_id], product_name)
        /\ sku # None => prods[its[id].product_id] = Upper(sku)}

RECURSIVE InventoryMap(_, _, _, _)
(* The for loop over results: inventory_map as the list of its values in   *)
(* insertion order, a product entering when its first row is met.          *)
InventoryMap(prods, its, results, inventory_map) ==
    IF results = <<>> THEN inventory_map
    ELSE LET item == its[Head(results)]
             p == item.product_id
             known == \E i \in 1..Len(inventory_map) : inventory_map[i].product_id = p
             entered ==
                 IF known THEN inventory_map
                 ELSE Append(inventory_map,
                             [product_id |-> p, product_name |-> ProductNames[p],
                              sku |-> prods[p], total_quantity |-> 0,
                              locations |-> <<>>])
             added ==
                 [i \in 1..Len(entered) |->
                     IF entered[i].product_id = p
                     THEN [entered[i] EXCEPT
                              !.total_quantity = @ + item.quantity,
                              !.locations = Append(@, LocationQuantity(item))]
                     ELSE entered[i]]
         IN InventoryMap(prods, its, Tail(results), added)

(* list[offset : offset + limit] for offset >= 0 and limit >= 0 *)
Slice(list, offset, limit) ==
    IF offset >= Len(list) THEN <<>>
    ELSE SubSeq(list, offset + 1, Min(offset + limit, Len(list)))

(* Mutant: offset and limit are applied to the rows of the join, and the  *)
(* rows of the page are grouped.                                           *)
OverviewListOfRowPage(prods, its, results, offset, limit) ==
    InventoryMap(prods, its, Slice(results, offset, limit), <<>>)

(* overview_list = list(inventory_map.values())[offset : offset + limit] *)
OverviewList(prods, its, results, offset, limit) ==
    Slice(InventoryMap(prods, its, results, <<>>), offset, limit)

(* The parameters of GET /inventory/overview; product_name is <<>> and sku *)
(* is None when the filter is not given.                                   *)
OverviewQuery(offset, limit, product_name, sku) ==
    [offset |-> offset, limit |-> limit, product_name |-> product_name, sku |-> sku]

(* get_inventory_overview in one step; last keeps the parameters of the    *)
(* request in its field patch.                                             *)
GetInventoryOverview(offset, limit, product_name, sku) ==
    /\ pre' = Snapshot
    /\ \E results \in Orderings(OverviewRows(products, items, product_name, sku)) :
           last' = [Outcome(Request("get_inventory_overview", 0, 0, 0, None), "ok", "",
                            OverviewList(products, items, results, offset, limit))
                    EXCEPT !.patch = OverviewQuery(offset, limit, product_name, sku)]
    /\ UNCHANGED <<products, items, movements, nextItemId, sess>>

(* The parameters of the overview requests of the model *)
Offsets == {0, 1}
Limits == {1, 2}
NamePatterns == {<<>>, <<"T">>, <<"n", "U">>}
SkuFilters == {None, "sku1"}

(* safety_stock of a record: the default, or a value set by a PATCH *)
SafetyStocks == {1, DefaultSafetyStock}

(* The (product, location) of the records in the order of their creation  *)
Layout ==
    <<[product_id |-> 1, location |-> "A1"], [product_id |-> 1, location |-> "B2"],
      [product_id |-> 2, location |-> "A1"]>>

(* The movements behind a record that holds q: one stock-in of q, or a     *)
(* stock-in of 1 and a stock-out of 1 when the record is empty.            *)
HistoryOf(p, id, q) ==
    IF q > 0 THEN <<Movement(p, id, MovIN, q)>>
    ELSE <<Movement(p, id, MovIN, 1), Movement(p, id, MovOUT, 1)>>

RECURSIVE HistoryUpTo(_, _)
HistoryUpTo(its, n) ==
    IF n = 0 THEN <<>>
    ELSE HistoryUpTo(its, n - 1) \o HistoryOf(its[n].product_id, n, its[n].quantity)

(* The database before a query: the first n records of Layout were created *)
(* by stock-ins, some were emptied by a targeted stock-out, and a PATCH    *)
(* may have set their safety stock; with n < 3 product 2 has no record.    *)
InitQuery ==
    /\ products = [p \in ProductIds |-> IF p = 1 THEN "SKU1" ELSE "SKU2"]
    /\ \E n \in 1..Len(Layout) :
       \E q \in [1..n -> 0..MaxQty], s \in [1..n -> SafetyStocks] :
           /\ items = [id \in 1..n |->
                          [WarehouseItem(Layout[id].product_id, q[id],
                                         Layout[id].location)
                           EXCEPT !.safety_stock = s[id]]]
           /\ nextItemId = n + 1
    /\ movements = HistoryUpTo(items, nextItemId - 1)
    /\ last = NoRequest
    /\ pre = [items |-> items, movements |-> movements]
    /\ sess = <<>>

(* The two aggregate queries, at any time *)
NextQuery ==
    \/ GetLowStockAlerts
    \/ \E offset \in Offsets, limit \in Limits,
          product_name \in NamePatterns, sku \in SkuFilters :
           GetInventoryOverview(offset, limit, product_name, sku)

SpecQuery == InitQuery /\ [][NextQuery]_vars

-----------------------------------------------------------------------------
(* Administration of the stock records: PATCH and DELETE of                *)
(* /warehouse-items/{item_id}.                                             *)

(* for key, value in item.model_dump(exclude_unset=True).items():          *)
(*     setattr(db_item, key, value)                                        *)
ApplyUpdate(row, item) ==
    [product_id |-> row.product_id,
     quantity |-> IF item.quantity = Unset THEN row.quantity
                  ELSE CHOOSE v \in item.quantity : TRUE,
     location |-> IF item.location = None THEN row.location ELSE item.location,
     safety_stock |-> IF item.safety_stock = Unset THEN row.safety_stock
                      ELSE CHOOSE v \in item.safety_stock : TRUE]

(* Mutant: the quantity of the body is not compared with the record's *)
UpdateWarehouseItemUnchecked(id, item) ==
    LET req == PatchRequest(id, item) IN
    /\ pre' = Snapshot
    /\ IF id \notin DOMAIN items
       THEN Raise(req, "HTTPException", "404")
       ELSE IF item.quantity = NullInt
       THEN Raise(req, "IntegrityError", "")
       ELSE /\ items' = [items EXCEPT ![id] = ApplyUpdate(@, item)]
            /\ last' = Outcome(req, "ok", "", id)
            /\ UNCHANGED <<products, movements, nextItemId, sess>>

(* update_warehouse_item.  A quantity sent as null passes the check of     *)
(* line 57, setattr writes None into the column, which is NOT NULL, and    *)
(* the flush of the commit raises IntegrityError: the transaction rolls    *)
(* back.                                                                   *)
UpdateWarehouseItem(id, item) ==
    LET req == PatchRequest(id, item) IN
    /\ pre' = Snapshot
    /\ IF id \notin DOMAIN items
       THEN Raise(req, "HTTPException", "404")
       ELSE IF item.quantity \notin {Unset, NullInt, {items[id].quantity}}
       THEN Raise(req, "HTTPException", "400")
       ELSE IF item.quantity = NullInt
       THEN Raise(req, "IntegrityError", "")
       ELSE /\ items' = [items EXCEPT ![id] = ApplyUpdate(@, item)]
            /\ last' = Outcome(req, "ok", "", id)
            /\ UNCHANGED <<products, movements, nextItemId, sess>>

(* Mutant: deleting a stock record deletes the movements of its product *)
CascadeItemWholeProduct(movs, id) ==
    SelectSeq(movs, LAMBDA m : m.product_id # items[id].product_id)

(* cascade="all, delete-orphan" of WarehouseItem.movements: the movements  *)
(* linked to the row are deleted with it.                                  *)
CascadeItem(movs, id) ==
    SelectSeq(movs, LAMBDA m : m.warehouse_item_id # id)

DeleteWarehouseItem(id) ==
    LET req == Request("delete_warehouse_item", 0, id, 0, None) IN
    /\ pre' = Snapshot
    /\ IF id \notin DOMAIN items
       THEN Raise(req, "HTTPException", "404")
       ELSE /\ items' = [i \in DOMAIN items \ {id} |-> items[i]]
            /\ movements' = CascadeItem(movements, id)
            /\ last' = Outcome(req, "ok", "", 0)
            /\ UNCHANGED <<products, nextItemId, sess>>

(* The bodies of the PATCH requests: a new location, a new safety stock,   *)
(* a quantity, or a null quantity.                                         *)
PatchBodies ==
    {WarehouseItemUpdate(Unset, loc, Unset) : loc \in Locations}
    \cup {WarehouseItemUpdate(Unset, None, {0}), WarehouseItemUpdate({1}, None, Unset),
          WarehouseItemUpdate(NullInt, None, Unset)}

(* item_id of a PATCH or DELETE: a row of the table, or the next id, which *)
(* session.get(WarehouseItem, item_id) misses.                             *)
RequestItemIds == DOMAIN items \cup {nextItemId}

(* Stock moves of one unit of product 1 while the movement table is short, *)
(* and the PATCH and DELETE of any row.                                    *)
NextAdmin ==
    \/ /\ Len(movements) < MaxAdminMovements
       /\ \E loc \in Locations : StockIn(1, 1, loc)
    \/ /\ Len(movements) < MaxAdminMovements
       /\ \E loc \in Locations \cup {None} : StockOut(1, 1, loc)
    \/ \E id \in RequestItemIds, item \in PatchBodies : UpdateWarehouseItem(id, item)
    \/ \E id \in RequestItemIds : DeleteWarehouseItem(id)

SpecAdmin == Init /\ [][NextAdmin]_vars

-----------------------------------------------------------------------------
(* The product catalog: POST, PATCH and DELETE of /products.               *)
(*                                                                         *)
(* Of a product row the model keeps the sku.  The sku of a request body is *)
(* Unset when the field is not sent, NullSku when it is sent as null, and  *)
(* {v} when it carries the string v.                                       *)

NullSku == {None}

(* The request of a product endpoint; last keeps the sku in its field      *)
(* patch.                                                                  *)
ProductRequest(op, id, sku) ==
    [Request(op, id, 0, 0, None) EXCEPT !.patch = [sku |-> sku]]

(* select(Product).where(Product.sku == sku, Product.id != product_id) *)
ProductsWithSku(prods, sku, product_id) ==
    {p \in DOMAIN prods : prods[p] = sku /\ p # product_id}

(* Mutant: the sku is stored as it was sent *)
CreateProductAsSent(sku) ==
    LET req == ProductRequest("create_product", 0, {sku}) IN
    /\ pre' = Snapshot
    /\ IF ProductsWithSku(products, Upper(sku), 0) # {}
       THEN Raise(req, "HTTPException", "409")
       ELSE \E id \in (1..MaxProducts) \ DOMAIN products :
                /\ products' = products @@ (id :> sku)
                /\ last' = Outcome(req, "ok", "", id)
                /\ UNCHANGED <<items, movements, nextItemId, sess>>

(* create_product: the database gives the new row an id that no row has *)
CreateProduct(sku) ==
    LET req == ProductRequest("create_product", 0, {sku}) IN
    /\ pre' = Snapshot
    /\ IF ProductsWithSku(products, Upper(sku), 0) # {}
       THEN Raise(req, "HTTPException", "409")
       ELSE \E id \in (1..MaxProducts) \ DOMAIN products :
                /\ products' = products @@ (id :> Upper(sku))
                /\ last' = Outcome(req, "ok", "", id)
                /\ UNCHANGED <<items, movements, nextItemId, sess>>

(* update_product.  A sku sent as null passes the check of line 60 and     *)
(* reaches product_data['sku'].upper() of line 67, which raises            *)
(* AttributeError on None.                                                 *)
UpdateProduct(product_id, sku) ==
    LET req == ProductRequest("update_product", product_id, sku)
        new == Upper(CHOOSE v \in sku : TRUE)
    IN /\ pre' = Snapshot
       /\ IF product_id \notin DOMAIN products
          THEN Raise(req, "ProductNotFoundException", "product does not exist")
          ELSE IF sku = NullSku
          THEN Raise(req, "AttributeError", "")
          ELSE IF sku = Unset
          THEN /\ last' = Outcome(req, "ok", "", product_id)
               /\ UNCHANGED <<products, items, movements, nextItemId, sess>>
          ELSE IF new # products[product_id]
                  /\ ProductsWithSku(products, new, product_id) # {}
          THEN Raise(req, "HTTPException", "409")
          ELSE /\ products' = [products EXCEPT ![product_id] = new]
               /\ last' = Outcome(req, "ok", "", product_id)
               /\ UNCHANGED <<items, movements, nextItemId, sess>>

(* Mutant: only the product row is deleted *)
DeleteProductOnly(product_id) ==
    LET req == ProductRequest("delete_product", product_id, Unset) IN
    /\ pre' = Snapshot
    /\ IF product_id \notin DOMAIN products
       THEN Raise(req, "ProductNotFoundException", "product does not exist")
       ELSE /\ products' = [p \in DOMAIN products \ {product_id} |-> products[p]]
            /\ last' = Outcome(req, "ok", "", 0)
            /\ UNCHANGED <<items, movements, nextItemId, sess>>

(* delete_product: cascade="all, delete-orphan" of Product.warehouse_items *)
(* and Product.movements deletes the rows of both tables that belong to    *)
(* the product, and the movements of those stock records.                  *)
DeleteProduct(product_id) ==
    LET req == ProductRequest("delete_product", product_id, Unset)
        owned == {id \in DOMAIN items : items[id].product_id = product_id}
    IN /\ pre' = Snapshot
       /\ IF product_id \notin DOMAIN products
          THEN Raise(req, "ProductNotFoundException", "product does not exist")
          ELSE /\ products' = [p \in DOMAIN products \ {product_id} |-> products[p]]
               /\ items' = [id \in DOMAIN items \ owned |-> items[id]]
               /\ movements' =
                      SelectSeq(movements,
                                LAMBDA m : /\ m.product_id # product_id
                                           /\ m.warehouse_item_id \notin owned)
               /\ last' = Outcome(req, "ok", "", 0)
               /\ UNCHANGED <<nextItemId, sess>>

(* The sku values of the product requests of the model *)
SkuInputs == {"sku1", "sku3"}

(* product_id of a PATCH or DELETE: a row of the table, or an id without a *)
(* row.                                                                    *)
RequestCatalogIds == DOMAIN products \cup {MaxProducts + 1}

(* The product endpoints, stock moves of one unit while the movement table *)
(* is short, and the PATCH and DELETE of a stock record.                   *)
NextCatalog ==
    \/ \E sku \in SkuInputs : CreateProduct(sku)
    \/ \E id \in RequestCatalogIds,
          sku \in {Unset, NullSku, {"sku3"}} :
           UpdateProduct(id, sku)
    \/ \E id \in RequestCatalogIds : DeleteProduct(id)
    \/ /\ Len(movements) < MaxCatalogMovements
       /\ \E p \in DOMAIN products, loc \in Locations : StockIn(p, 1, loc)
    \/ /\ Len(movements) < MaxCatalogMovements
       /\ \E p \in DOMAIN products : StockOut(p, 1, None)
    \/ \E id \in DOMAIN items : UpdateWarehouseItem(id, WarehouseItemUpdate(Unset, "B2", Unset))
    \/ \E id \in DOMAIN items : DeleteWarehouseItem(id)

SpecCatalog == Init /\ [][NextCatalog]_vars

-----------------------------------------------------------------------------
(* Two sessions at once.                                                   *)
(*                                                                         *)
(* get_session gives every request its own Session, and create_engine is  *)
(* called without an isolation level, so two requests are two database     *)
(* transactions at the database's default isolation.  stock_out sends its  *)
(* SELECTs when it runs them and its writes only when the                  *)
(* `with session.begin():` block ends: the ORM flushes one                 *)
(* UPDATE warehouse_item SET quantity = <value computed in Python>         *)
(* per changed row and one INSERT per movement, then commits.  Neither     *)
(* SELECT uses with_for_update() and the rows carry no version column.     *)
(* A session is therefore two steps: Read (the SELECTs, the checks and the *)
(* in-memory changes) and Commit (the flush and the COMMIT).  The product  *)
(* table does not change here, so its SELECT is part of Read.              *)
(* At READ COMMITTED the UPDATE of a row that another transaction changed  *)
(* and committed since the SELECT goes through; a database whose default   *)
(* isolation detects that write-write conflict rejects the UPDATE, and     *)
(* the transaction rolls back (Abort).  The model allows both.             *)

Sessions == {1, 2}

(* The session of a GET /inventory/low-stock request, which runs beside    *)
(* the two stock-outs: rows is the result of its first query and alerts    *)
(* the list it has built so far.                                           *)
Reader == 0

IdleReader == [pc |-> "idle", rows |-> <<>>, alerts |-> <<>>]

IdleSession ==
    [pc |-> "idle", req |-> Request("none", 0, 0, 0, None),
     outcome |-> "none", reads |-> <<>>, writes |-> <<>>, inserts |-> <<>>,
     movs |-> <<>>]

(* The database before the two requests: product 1 was stocked in at "A1"  *)
(* and at "B2".                                                            *)
InitConc ==
    /\ products = [p \in ProductIds |-> IF p = 1 THEN "SKU1" ELSE "SKU2"]
    /\ \E a \in Quantities, b \in Quantities :
          /\ items = (1 :> WarehouseItem(2, 1, "A1"))
                       @@ (2 :> WarehouseItem(1, a, "A1"))
                       @@ (3 :> WarehouseItem(1, b, "B2"))
          /\ movements = <<Movement(2, 1, MovIN, 1), Movement(1, 2, MovIN, a),
                           Movement(1, 3, MovIN, b)>>
    /\ nextItemId = 4
    /\ last = NoRequest
    /\ pre = [items |-> items, movements |-> movements]
    /\ sess = (Reader :> IdleReader) @@ [s \in Sessions |-> IdleSession]

(* The session ends with an exception: nothing was written *)
SessionRaise(s, req, error) ==
    sess' = [sess EXCEPT ![s] = [pc |-> "done", req |-> req, outcome |-> error,
                                 reads |-> <<>>, writes |-> <<>>,
                                 inserts |-> <<>>, movs |-> <<>>]]

(* The session holds changed rows and new movements to flush: writes maps  *)
(* the id of each changed row to the quantity the session computed, reads  *)
(* to the quantity its SELECT returned.                                    *)
SessionPending(s, req, writes, movs) ==
    sess' = [sess EXCEPT ![s] = [pc |-> "flush", req |-> req, outcome |-> "none",
                                 reads |-> [id \in DOMAIN writes |-> items[id].quantity],
                                 writes |-> writes, inserts |-> <<>>,
                                 movs |-> movs]]

(* The session has sent the INSERT of a new stock record (session.flush() *)
(* of line 57), which gave the row its id, and holds its first movement:   *)
(* the row is in the session's transaction and no other session sees it    *)
(* before the COMMIT.                                                      *)
SessionInserted(s, req, id, row, movs) ==
    sess' = [sess EXCEPT ![s] = [pc |-> "flush", req |-> req, outcome |-> "none",
                                 reads |-> <<>>, writes |-> <<>>,
                                 inserts |-> (id :> row), movs |-> movs]]

(* Lines 92-170 of stock_out in session s, on the committed rows *)
ReadStockOut(s, p, q, loc) ==
    LET req == Request("stock_out", p, 0, q, loc) IN
    /\ sess[s].pc = "idle"
    /\ IF p \notin DOMAIN products
       THEN SessionRaise(s, req, "ProductNotFoundException")
       ELSE IF loc # None
       THEN IF ItemsAt(items, p, loc) = {}
            THEN SessionRaise(s, req, "ProductNotFoundException")
            ELSE \E id \in ItemsAt(items, p, loc) :
                     IF Insufficient(items[id].quantity, q)
                     THEN SessionRaise(s, req, "InsufficientStockException")
                     ELSE SessionPending(s, req,
                                         (id :> Decrement(items, id, q)[id].quantity),
                                         <<Movement(p, id, MovOUT, q)>>)
       ELSE LET avail == AvailableItems(items, p)
                done == Walk(items, <<>>, <<>>, avail, 1, q)
            IN IF avail = <<>>
               THEN SessionRaise(s, req, "ProductNotFoundException")
               ELSE IF Insufficient(TotalAvailable(items, avail), q)
               THEN SessionRaise(s, req, "InsufficientStockException")
               ELSE SessionPending(s, req,
                                   [i \in {done.updated[k] : k \in 1..Len(done.updated)}
                                      |-> done.items[i].quantity],
                                   done.movements)
    /\ UNCHANGED <<products, items, movements, nextItemId, last, pre>>

(* Lines 25-66 of stock_in in session s, on the committed rows.  The table *)
(* has no unique constraint on (product_id, location), so the INSERT of a  *)
(* second row for the pair is accepted.                                     *)
ReadStockIn(s, p, q, loc) ==
    LET req == Request("stock_in", p, 0, q, loc) IN
    /\ sess[s].pc = "idle"
    /\ IF p \notin DOMAIN products
       THEN /\ SessionRaise(s, req, "ProductNotFoundException")
            /\ UNCHANGED nextItemId
       ELSE IF ItemsAt(items, p, loc) # {}
       THEN /\ \E id \in ItemsAt(items, p, loc) :
                   SessionPending(s, req,
                                  (id :> Increment(items, id, q)[id].quantity),
                                  <<Movement(p, id, MovIN, q)>>)
            /\ UNCHANGED nextItemId
       ELSE /\ SessionInserted(s, req, nextItemId, WarehouseItem(p, q, loc),
                               <<Movement(p, nextItemId, MovIN, q)>>)
            /\ nextItemId' = nextItemId + 1
    /\ UNCHANGED <<products, items, movements, last, pre>>

(* The end of the `with session.begin():` block of session s: the flush    *)
(* and the COMMIT.                                                         *)
CommitSession(s) ==
    /\ sess[s].pc = "flush"
    /\ items' = [id \in DOMAIN items \cup DOMAIN sess[s].inserts |->
                    IF id \in DOMAIN sess[s].inserts
                    THEN sess[s].inserts[id]
                    ELSE IF id \in DOMAIN sess[s].writes
                    THEN [items[id] EXCEPT !.quantity = sess[s].writes[id]]
                    ELSE items[id]]
    /\ movements' = movements \o sess[s].movs
    /\ sess' = [sess EXCEPT ![s].pc = "done", ![s].outcome = "ok"]
    /\ UNCHANGED <<products, nextItemId, last, pre>>

(* The database rejects the flush of session s because a row it changes    *)
(* was changed by a transaction that committed after session s read it.    *)
AbortSession(s) ==
    /\ sess[s].pc = "flush"
    /\ \E id \in DOMAIN sess[s].writes : items[id].quantity # sess[s].reads[id]
    /\ sess' = [sess EXCEPT ![s].pc = "done", ![s].outcome = "OperationalError"]
    /\ UNCHANGED <<products, items, movements, nextItemId, last, pre>>

(* Lines 250-260 of get_low_stock_alerts: the first query, on the rows     *)
(* committed when the statement runs.                                      *)
ReadLowStockProducts ==
    /\ sess[Reader].pc = "idle"
    /\ \E low_stock_products \in Orderings(LowStockProducts(products, items)) :
           sess' = [sess EXCEPT ![Reader] =
                       [pc |-> IF low_stock_products = <<>> THEN "done" ELSE "loop",
                        rows |-> low_stock_products, alerts |-> <<>>]]
    /\ UNCHANGED <<products, items, movements, nextItemId, last, pre>>

(* Lines 263-281: one turn of the for loop, whose query is a statement of  *)
(* its own and reads the rows committed when it runs.                      *)
ReadLocationDetails ==
    /\ sess[Reader].pc = "loop"
    /\ LET turn == Len(sess[Reader].alerts) + 1
           row == sess[Reader].rows[turn]
       IN \E location_items \in Orderings(LocationItems(items, row.product_id)) :
              sess' = [sess EXCEPT
                          ![Reader].alerts =
                              Append(@, LowStockAlert(row, items, location_items)),
                          ![Reader].pc =
                              IF turn = Len(sess[Reader].rows) THEN "done" ELSE "loop"]
    /\ UNCHANGED <<products, items, movements, nextItemId, last, pre>>

NextConc ==
    \/ \E s \in Sessions, q \in Quantities, loc \in Locations \cup {None} :
           ReadStockOut(s, 1, q, loc)
    \/ \E s \in Sessions : CommitSession(s)
    \/ \E s \in Sessions : AbortSession(s)
    \/ ReadLowStockProducts
    \/ ReadLocationDetails

SpecConc == InitConc /\ [][NextConc]_vars

(* Two stock-ins at once, of product 2 or of a product that does not       *)
(* exist: product 2 has a record at "A1" and none at "B2".                 *)
NextConcIn ==
    \/ \E s \in Sessions, p \in {2, 3}, q \in Quantities, loc \in Locations :
           ReadStockIn(s, p, q, loc)
    \/ \E s \in Sessions : CommitSession(s)
    \/ \E s \in Sessions : AbortSession(s)

SpecConcIn == InitConc /\ [][NextConcIn]_vars

-----------------------------------------------------------------------------
(* Ledger arithmetic used by the properties *)

Signed(m) == IF m.movement_type = MovIN THEN m.quantity ELSE 0 - m.quantity

RECURSIVE NetMovements(_, _)
(* Sum of the IN quantities minus sum of the OUT quantities of the          *)
(* movements of product p.                                                  *)
NetMovements(movs, p) ==
    IF movs = <<>> THEN 0
    ELSE (IF Head(movs).product_id = p THEN Signed(Head(movs)) ELSE 0)
         + NetMovements(Tail(movs), p)

RECURSIVE SumQuantity(_, _)
SumQuantity(its, S) ==
    IF S = {} THEN 0
    ELSE LET id == CHOOSE x \in S : TRUE
         IN its[id].quantity + SumQuantity(its, S \ {id})

ItemsOf(its, p) == {id \in DOMAIN its : its[id].product_id = p}

StockOf(its, p) == SumQuantity(its, ItemsOf(its, p))

RECURSIVE Replay(_, _, _)
(* The movements linked to record id replayed from acc: the final balance   *)
(* and whether every intermediate balance was >= 0.                         *)
Replay(movs, id, acc) ==
    IF movs = <<>> THEN [balance |-> acc, ok |-> acc >= 0]
    ELSE LET m == Head(movs)
             next == IF m.warehouse_item_id = id THEN acc + Signed(m) ELSE acc
             rest == Replay(Tail(movs), id, next)
         IN [balance |-> rest.balance, ok |-> acc >= 0 /\ rest.ok]

(* What the latest request took from record id *)
Deducted(id) == pre.items[id].quantity - items[id].quantity

(* The movements the latest request appended *)
Appended == SubSeq(movements, Len(pre.movements) + 1, Len(movements))

IsPrefix(s, t) == Len(s) <= Len(t) /\ SubSeq(t, 1, Len(s)) = s

-----------------------------------------------------------------------------
(* C1 Conservation: in every reachable state, for each product the sum of  *)
(* its IN movement quantities minus the sum of its OUT movement quantities *)
(* equals the sum of the quantities of its current stock records.          *)
C1_Conservation ==
    \A p \in ProductIds : NetMovements(movements, p) = StockOf(items, p)

(* Product 1 has been stocked in and out, stock is left, and a stock-out   *)
(* has just failed.                                                         *)
C1_Witness ==
    /\ \E i \in 1..Len(movements) :
           movements[i].product_id = 1 /\ movements[i].movement_type = MovOUT
    /\ StockOf(items, 1) > 0
    /\ last.op = "stock_out" /\ last.outcome = "InsufficientStockException"

(* C2 Per-record ledger consistency: in every reachable state, for each    *)
(* stock record the movements linked to it, replayed in creation order     *)
(* from zero, never go below zero and end at the record's quantity.        *)
C2_RecordLedger ==
    \A id \in DOMAIN items :
        LET r == Replay(movements, id, 0)
        IN r.ok /\ r.balance = items[id].quantity

(* A record that was stocked in, emptied by a stock-out and stocked again. *)
C2_Witness ==
    \E id \in DOMAIN items :
        /\ items[id].quantity > 0
        /\ \E i, j, k \in 1..Len(movements) :
               /\ i < j /\ j < k
               /\ movements[i].warehouse_item_id = id
               /\ movements[j].warehouse_item_id = id
               /\ movements[k].warehouse_item_id = id
               /\ movements[j].movement_type = MovOUT
               /\ movements[k].movement_type = MovIN
               /\ Replay(SubSeq(movements, 1, j), id, 0).balance = 0


(* C3 Atomicity on failure: a stock-out, targeted or not, that fails with  *)
(* InsufficientStock leaves every stock record and the whole movement      *)
(* table as they were before the call.                                     *)
C3_AtomicFailure ==
    (last.op = "stock_out" /\ last.outcome = "InsufficientStockException")
        => (items = pre.items /\ movements = pre.movements)

(* An untargeted stock-out has failed although records of the product      *)
(* hold stock at two locations: a partial deduction was possible.          *)
C3_Witness ==
    /\ last.op = "stock_out" /\ last.outcome = "InsufficientStockException"
    /\ last.location = None
    /\ Len(AvailableItems(pre.items, last.product_id)) = 2

(* The positive records of product p with a lower id than record id *)
LowerPositive(its, p, id) ==
    {j \in ItemsOf(its, p) : j < id /\ its[j].quantity > 0}

(* What a greedy walk in ascending id takes from record id for a request   *)
(* of q: what is left of q after the lower positive records, at most the   *)
(* record's quantity.                                                      *)
GreedyShare(its, p, id, q) ==
    LET before == SumQuantity(its, LowerPositive(its, p, id))
    IN IF before >= q THEN 0 ELSE Min(its[id].quantity, q - before)

UntargetedOk ==
    last.op = "stock_out" /\ last.location = None /\ last.outcome = "ok"

(* C4 Deterministic greedy allocation: a successful untargeted stock-out   *)
(* of q takes from each record of the product min(quantity, remaining) in  *)
(* ascending record id, so a record is touched only if every lower         *)
(* positive record was emptied, the total taken is q, and the split is a   *)
(* function of the starting state (R1=5, R2=5, q=7 gives 5 and 2).         *)
C4_GreedyAllocation ==
    /\ UntargetedOk =>
          LET p == last.product_id
              q == last.quantity
          IN /\ DOMAIN items = DOMAIN pre.items
             /\ \A id \in ItemsOf(pre.items, p) :
                    /\ Deducted(id) = GreedyShare(pre.items, p, id, q)
                    /\ Deducted(id) > 0 =>
                           \A j \in LowerPositive(pre.items, p, id) :
                               items[j].quantity = 0
             /\ StockOf(pre.items, p) - StockOf(items, p) = q
    /\ LET r == (1 :> WarehouseItem(1, 5, "A1")) @@ (2 :> WarehouseItem(1, 5, "B2"))
           w == Walk(r, <<>>, <<>>, AvailableItems(r, 1), 1, 7)
       IN w.items[1].quantity = 0 /\ w.items[2].quantity = 3

(* An untargeted stock-out has emptied a first record and taken part of a  *)
(* second one.                                                             *)
C4_Witness ==
    /\ UntargetedOk
    /\ \E i, j \in ItemsOf(pre.items, last.product_id) :
           /\ i < j
           /\ Deducted(i) > 0 /\ items[i].quantity = 0
           /\ Deducted(j) > 0 /\ items[j].quantity > 0

(* C5 Location-exact audit trail: a successful untargeted stock-out        *)
(* appends exactly one OUT movement per record it deducts from, linked to  *)
(* that record and carrying the amount deducted from it, in ascending      *)
(* record id; records it does not deduct from get no movement, and the     *)
(* movement quantities sum to the requested quantity.                      *)
C5_LocationExactTrail ==
    UntargetedOk =>
        LET p == last.product_id
            new == Appended
            touched == {id \in ItemsOf(pre.items, p) : Deducted(id) > 0}
        IN /\ IsPrefix(pre.movements, movements)
           /\ Len(new) = Cardinality(touched)
           /\ \A i \in 1..Len(new) :
                  /\ new[i].warehouse_item_id \in touched
                  /\ new[i] = [product_id |-> p,
                               warehouse_item_id |-> new[i].warehouse_item_id,
                               movement_type |-> MovOUT,
                               quantity |-> Deducted(new[i].warehouse_item_id)]
                  /\ \A j \in 1..Len(new) :
                         i < j => new[i].warehouse_item_id < new[j].warehouse_item_id
           /\ SumSeq([i \in 1..Len(new) |-> new[i].quantity]) = last.quantity

(* An untargeted stock-out has appended two movements of different         *)
(* quantities, neither of them the requested total, and left a third       *)
(* record of the database untouched.                                       *)
C5_Witness ==
    /\ UntargetedOk
    /\ Len(Appended) = 2
    /\ Appended[1].quantity # Appended[2].quantity
    /\ Appended[1].quantity < last.quantity
    /\ \E id \in DOMAIN items : Deducted(id) = 0


(* The records of product p at location loc *)
RecordsAt(its, p, loc) ==
    {id \in DOMAIN its : its[id].product_id = p /\ its[id].location = loc}

(* Every record but those of S is as it was before the latest request *)
OthersUnchanged(S) ==
    \A id \in DOMAIN pre.items \ S : id \in DOMAIN items /\ items[id] = pre.items[id]

StockInOk == last.op = "stock_in" /\ last.outcome = "ok"

(* C8 New-location StockIn: a stock-in for an existing product at a        *)
(* (product, location) without a stock record creates exactly one new      *)
(* record with the requested quantity and safety stock 5, appends exactly  *)
(* one IN movement of that amount linked to the new record, and changes no *)
(* other record.                                                           *)
C8_NewLocationStockIn ==
    (StockInOk /\ RecordsAt(pre.items, last.product_id, last.location) = {}) =>
        \E new \in DOMAIN items \ DOMAIN pre.items :
            /\ DOMAIN items = DOMAIN pre.items \cup {new}
            /\ items[new] = [product_id |-> last.product_id,
                             quantity |-> last.quantity,
                             location |-> last.location,
                             safety_stock |-> 5]
            /\ OthersUnchanged({})
            /\ movements = Append(pre.movements,
                                  [product_id |-> last.product_id,
                                   warehouse_item_id |-> new,
                                   movement_type |-> MovIN,
                                   quantity |-> last.quantity])

(* Product 1 holds stock at one location and has just been stocked in at   *)
(* another one.                                                            *)
C8_Witness ==
    /\ StockInOk
    /\ RecordsAt(pre.items, last.product_id, last.location) = {}
    /\ \E id \in ItemsOf(pre.items, last.product_id) : pre.items[id].quantity > 0

(* C9 Existing-location StockIn: a stock-in at a (product, location) that  *)
(* has a stock record, also one of quantity 0, adds the requested amount   *)
(* to that record, creates no record, keeps the record's id and safety     *)
(* stock, appends exactly one IN movement linked to it and leaves every    *)
(* other record unchanged.                                                 *)
C9_ExistingLocationStockIn ==
    (StockInOk /\ RecordsAt(pre.items, last.product_id, last.location) # {}) =>
        \E id \in RecordsAt(pre.items, last.product_id, last.location) :
            /\ DOMAIN items = DOMAIN pre.items
            /\ items[id] = [pre.items[id] EXCEPT !.quantity = @ + last.quantity]
            /\ OthersUnchanged({id})
            /\ movements = Append(pre.movements,
                                  [product_id |-> last.product_id,
                                   warehouse_item_id |-> id,
                                   movement_type |-> MovIN,
                                   quantity |-> last.quantity])

(* A record that a stock-out had emptied has been stocked in again, while  *)
(* the product has a second record.                                        *)
C9_Witness ==
    /\ StockInOk
    /\ \E id \in RecordsAt(pre.items, last.product_id, last.location) :
           pre.items[id].quantity = 0 /\ items[id].quantity > 0
    /\ Cardinality(ItemsOf(items, last.product_id)) = 2

Targeted == last.op = "stock_out" /\ last.location # None

C10_Witness ==
    /\ Targeted /\ last.outcome = "ok"
    /\ \E id \in RecordsAt(items, last.product_id, last.location) :
           items[id].quantity = 0
    /\ \E id \in ItemsOf(items, last.product_id) :
           items[id].location # last.location /\ items[id].quantity > 0
    /\ \E id \in DOMAIN items :
           /\ items[id].product_id # last.product_id
           /\ items[id].location = last.location
           /\ items[id].quantity > 0


TakenBy(s, id) ==
    IF sess[s].pc = "done" /\ sess[s].outcome = "ok"
    THEN SumSeq([i \in 1..Len(sess[s].movs) |->
                    IF sess[s].movs[i].warehouse_item_id = id
                    THEN sess[s].movs[i].quantity ELSE 0])
    ELSE 0

(* C6 No lost update: when two stock-outs run concurrently, once both have *)
(* ended every record's quantity is its initial quantity minus what each   *)
(* committed call deducted from it (a failed call deducts nothing).        *)
C6_NoLostUpdate ==
    (\A s \in Sessions : sess[s].pc = "done") =>
        \A id \in DOMAIN items :
            items[id].quantity =
                pre.items[id].quantity - TakenBy(1, id) - TakenBy(2, id)

-----------------------------------------------------------------------------
(* C11 Targeted insufficient stock is judged at the named location only:   *)
(* a targeted stock-out whose quantity exceeds the quantity of the record  *)
(* at that location fails with InsufficientStock and changes nothing, also *)
(* when the product's total over its other locations covers the request.   *)
C11_TargetedInsufficient ==
    LET here == RecordsAt(pre.items, last.product_id, last.location)
    IN (/\ Targeted
        /\ last.product_id \in DOMAIN products
        /\ here # {}
        /\ \A id \in here : pre.items[id].quantity < last.quantity)
       => /\ last.outcome = "InsufficientStockException"
          /\ items = pre.items
          /\ movements = pre.movements

(* A targeted stock-out has failed at a location that holds stock, while   *)
(* the product's total over all locations covered the request.             *)
C11_Witness ==
    /\ Targeted /\ last.outcome = "InsufficientStockException"
    /\ \E id \in RecordsAt(pre.items, last.product_id, last.location) :
           pre.items[id].quantity > 0
    /\ StockOf(pre.items, last.product_id) >= last.quantity
    /\ items = pre.items

(* C12 Unknown product: a stock-in or stock-out whose product_id does not  *)
(* resolve fails with ProductNotFound, raised by the product lookup before *)
(* any location or quantity condition is looked at, and leaves every stock *)
(* record and the movement table unchanged.                                *)
C12_UnknownProduct ==
    (last.op \in {"stock_in", "stock_out"} /\ last.product_id \notin DOMAIN products)
        => /\ last.outcome = "ProductNotFoundException"
           /\ last.detail = "product does not exist"
           /\ items = pre.items
           /\ movements = pre.movements

(* A stock-out of an unknown product has failed although it named a        *)
(* location where a record holds at least the requested quantity.          *)
C12_Witness ==
    /\ last.op = "stock_out"
    /\ last.product_id \notin DOMAIN products
    /\ last.outcome = "ProductNotFoundException"
    /\ \E id \in DOMAIN items :
           items[id].location = last.location /\ items[id].quantity >= last.quantity

(* The records of product p that hold stock *)
PositiveOf(its, p) == {id \in ItemsOf(its, p) : its[id].quantity > 0}

(* C13 Untargeted StockOut error choice: for an existing product, when no  *)
(* record of the product has quantity > 0 (no record, or all at zero) the  *)
(* call fails with the ProductNotFound-class error and not with            *)
(* InsufficientStock; when a record has quantity > 0 and the sum is less   *)
(* than the request it fails with InsufficientStock; it succeeds exactly   *)
(* when the sum is >= the request.                                         *)
C13_UntargetedErrorChoice ==
    (last.op = "stock_out" /\ last.location = None
     /\ last.product_id \in DOMAIN products) =>
        LET pos == PositiveOf(pre.items, last.product_id)
            sum == SumQuantity(pre.items, pos)
        IN /\ pos = {} => last.outcome = "ProductNotFoundException"
           /\ (pos # {} /\ sum < last.quantity)
                  => last.outcome = "InsufficientStockException"
           /\ (last.outcome = "ok") <=> (sum >= last.quantity)

(* An untargeted stock-out has failed with the ProductNotFound-class error *)
(* for a product that has records, all of them at quantity 0.              *)
C13_Witness ==
    /\ last.op = "stock_out" /\ last.location = None
    /\ last.product_id \in DOMAIN products
    /\ last.outcome = "ProductNotFoundException"
    /\ ItemsOf(pre.items, last.product_id) # {}

(* A targeted stock-out of an existing product named a location where the  *)
(* product has no record.                                                  *)
AbsentLocation ==
    /\ Targeted
    /\ last.product_id \in DOMAIN products
    /\ RecordsAt(pre.items, last.product_id, last.location) = {}

(* C14 Error taxonomy is distinct, as claimed: a targeted stock-out on an  *)
(* existing product at a location without a stock record fails with        *)
(* LocationNotFound, an error of another class than the ProductNotFound of *)
(* an unknown productId and than InsufficientStock.                        *)
C14_LocationNotFound ==
    AbsentLocation =>
        last.outcome \notin
            {"ok", "ProductNotFoundException", "InsufficientStockException"}

(* C14 as amended: a targeted stock-out on an existing product at a        *)
(* location without a stock record fails with the ProductNotFound-class    *)
(* error, the class raised for an unknown productId, and differs from that *)
(* case by its detail message only; it is not InsufficientStock, and       *)
(* nothing is changed.                                                     *)
C14_LocationErrorClass ==
    AbsentLocation =>
        /\ last.outcome = "ProductNotFoundException"
        /\ last.detail = "no record at the location"
        /\ items = pre.items
        /\ movements = pre.movements

(* The product holds enough stock at another location, and the targeted    *)
(* stock-out named a location where it has no record.                      *)
C14_Witness ==
    /\ AbsentLocation
    /\ last.outcome # "ok"
    /\ StockOf(pre.items, last.product_id) >= last.quantity

(* C15 Non-negative stock: in every state reachable by stock-ins and       *)
(* stock-outs, every stock record has quantity >= 0 and safety_stock >= 0. *)
C15_NonNegative ==
    \A id \in DOMAIN items :
        items[id].quantity >= 0 /\ items[id].safety_stock >= 0

(* A record stands at 0 after a stock-out emptied it, and a further        *)
(* stock-out of that record has just been refused.                         *)
C15_Witness ==
    /\ Targeted /\ last.outcome = "InsufficientStockException"
    /\ \E id \in RecordsAt(items, last.product_id, last.location) :
           /\ items[id].quantity = 0
           /\ \E i \in 1..Len(movements) :
                  /\ movements[i].warehouse_item_id = id
                  /\ movements[i].movement_type = MovOUT

(* C16 Untargeted StockOut is all-or-nothing under concurrency: when an    *)
(* untargeted stock-out runs concurrently with another call that writes a  *)
(* record of its touched set, the two take effect as if run one after the  *)
(* other or one aborts without effect; no interleaving commits a state in  *)
(* which the movements and the record quantities of the product violate    *)
(* Conservation.                                                           *)
C16_AllOrNothing ==
    (\E s \in Sessions : /\ sess[s].pc = "done"
                         /\ sess[s].outcome = "ok"
                         /\ sess[s].req.location = None)
        => \A p \in ProductIds : NetMovements(movements, p) = StockOf(items, p)

-----------------------------------------------------------------------------
(* Properties of the aggregate queries *)

RECURSIVE SumSafety(_, _)
SumSafety(its, S) ==
    IF S = {} THEN 0
    ELSE LET id == CHOOSE x \in S : TRUE
         IN its[id].safety_stock + SumSafety(its, S \ {id})

AlertsReturned == last.op = "get_low_stock_alerts" /\ last.outcome = "ok"

(* The products of the alerts returned *)
Flagged == {last.ret[i].product_id : i \in 1..Len(last.ret)}

(* C17 Low-stock membership: LowStockAlerts returns exactly the products   *)
(* that have at least one stock record and whose summed quantity over all  *)
(* their records is strictly less than their summed safety stock, each     *)
(* once.  So a total equal to the total safety stock is not flagged, one   *)
(* unit below is, a product without a record never is, and one location    *)
(* under its own threshold does not flag a product whose total meets the   *)
(* total threshold.                                                        *)
C17_LowStockMembership ==
    AlertsReturned =>
        /\ \A p \in DOMAIN products :
               p \in Flagged <=>
                   /\ ItemsOf(items, p) # {}
                   /\ SumQuantity(items, ItemsOf(items, p))
                          < SumSafety(items, ItemsOf(items, p))
        /\ Len(last.ret) = Cardinality(Flagged)

(* The alerts were returned while one product stood exactly at its total   *)
(* safety stock, with one of its locations under its own threshold, and    *)
(* was not flagged, and another product stood one unit below and was.      *)
C17_Witness ==
    /\ AlertsReturned
    /\ \E p \in DOMAIN products \ Flagged :
           /\ SumQuantity(items, ItemsOf(items, p)) = SumSafety(items, ItemsOf(items, p))
           /\ \E id \in ItemsOf(items, p) : items[id].quantity < items[id].safety_stock
    /\ \E p \in Flagged :
           SumQuantity(items, ItemsOf(items, p)) + 1 = SumSafety(items, ItemsOf(items, p))

(* C19 Low-stock breakdown is complete: for each product LowStockAlerts    *)
(* reports, the location breakdown lists every stock record of the product *)
(* with its quantity and nothing else, also the locations at or above      *)
(* their own safety stock and the locations at quantity 0.                 *)
C19_BreakdownComplete ==
    AlertsReturned =>
        \A i \in 1..Len(last.ret) :
            LET details == last.ret[i].location_details
                records == ItemsOf(items, last.ret[i].product_id)
            IN /\ Len(details) = Cardinality(records)
               /\ \A id \in records :
                      \E k \in 1..Len(details) :
                          details[k] = [location |-> items[id].location,
                                        quantity |-> items[id].quantity]

(* An alert was returned for a product with one location at quantity 0 and *)
(* another at or above its own safety stock, and lists two locations.      *)
C19_Witness ==
    /\ AlertsReturned
    /\ \E i \in 1..Len(last.ret) :
           /\ Len(last.ret[i].location_details) = 2
           /\ \E id \in ItemsOf(items, last.ret[i].product_id) :
                  items[id].quantity = 0
           /\ \E id \in ItemsOf(items, last.ret[i].product_id) :
                  items[id].quantity > 0
                  /\ items[id].quantity >= items[id].safety_stock

OverviewReturned == last.op = "get_inventory_overview" /\ last.outcome = "ok"

(* Product p passes the filters of the overview request *)
PassesFilters(p, query) ==
    /\ query.product_name # <<>> => ILike(ProductNames[p], query.product_name)
    /\ query.sku # None => products[p] = Upper(query.sku)

(* C20 Overview pagination is over grouped products: for every offset and  *)
(* limit, each entry of the page is a product that passes the filters and  *)
(* lists all the stock records of that product, with total_quantity the    *)
(* sum of the listed quantities; no product appears twice in a page and a  *)
(* page holds at most limit products, so a product with several locations  *)
(* is never split across pages.                                            *)
C20_GroupedPagination ==
    OverviewReturned =>
        LET page == last.ret
            query == last.patch
        IN /\ Len(page) <= query.limit
           /\ \A i, j \in 1..Len(page) :
                  page[i].product_id = page[j].product_id => i = j
           /\ \A i \in 1..Len(page) :
                  LET listed == page[i].locations
                      records == ItemsOf(items, page[i].product_id)
                  IN /\ page[i].product_id \in DOMAIN products
                     /\ PassesFilters(page[i].product_id, query)
                     /\ Len(listed) = Cardinality(records)
                     /\ \A id \in records :
                            \E k \in 1..Len(listed) :
                                listed[k] = [location |-> items[id].location,
                                             quantity |-> items[id].quantity]
                     /\ page[i].total_quantity
                            = SumSeq([k \in 1..Len(listed) |-> listed[k].quantity])

(* The second page of size 1 was returned and holds a product with two     *)
(* locations, both listed, while the join had three rows.                  *)
C20_Witness ==
    /\ OverviewReturned
    /\ last.patch.offset = 1 /\ last.patch.limit = 1
    /\ Cardinality(DOMAIN items) = 3
    /\ Len(last.ret) = 1
    /\ Len(last.ret[1].locations) = 2
    /\ last.ret[1].total_quantity > 0

-----------------------------------------------------------------------------
(* C18 Aggregates reflect a consistent snapshot: for every product that    *)
(* LowStockAlerts reports, the reported total quantity equals the sum of   *)
(* the quantities of its reported location breakdown and is below the      *)
(* reported total safety stock, also when stock-out transactions commit    *)
(* while the alerts are computed; no result mixes values from before and   *)
(* after a committed write.                                                *)
C18_ConsistentSnapshot ==
    sess[Reader].pc = "done" =>
        \A i \in 1..Len(sess[Reader].alerts) :
            LET alert == sess[Reader].alerts[i]
            IN /\ alert.current_stock
                      = SumSeq([k \in 1..Len(alert.location_details) |->
                                   alert.location_details[k].quantity])
               /\ alert.current_stock < alert.safety_stock

-----------------------------------------------------------------------------
(* C21 Idempotent aggregation: two Overview calls with identical filters   *)
(* and pagination and no write in between return identical results (the    *)
(* same products in the same order with the same totals and breakdowns),   *)
(* and neither call changes a stock record or a movement.                  *)
C21_IdempotentOverview ==
    [][(/\ last.op = "get_inventory_overview"
        /\ last'.op = "get_inventory_overview"
        /\ last'.patch = last.patch)
       => /\ last'.ret = last.ret
          /\ items' = items
          /\ movements' = movements]_vars

-----------------------------------------------------------------------------
(* The rows of a movement table that a stock record, or a product, owns *)
LinkedToItem(m, id) == m.warehouse_item_id = id
LinkedToProduct(its, m, product_id) ==
    \/ m.product_id = product_id
    \/ /\ m.warehouse_item_id \in DOMAIN its
       /\ its[m.warehouse_item_id].product_id = product_id

C23_NoOrphans ==
    /\ \A id \in DOMAIN items : items[id].product_id \in DOMAIN products
    /\ \A i \in 1..Len(movements) :
           /\ movements[i].product_id \in DOMAIN products
           /\ movements[i].warehouse_item_id \in DOMAIN items
           /\ items[movements[i].warehouse_item_id].product_id
                  = movements[i].product_id
    /\ (last.op = "delete_product" /\ last.outcome = "ok")
           => /\ ItemsOf(items, last.product_id) = {}
              /\ \A i \in 1..Len(movements) :
                     movements[i].product_id # last.product_id

(* A product with stock records and history has just been deleted, and     *)
(* the history of another product is still in the log.                     *)
C23_Witness ==
    /\ last.op = "delete_product"
    /\ last.outcome = "ok"
    /\ ItemsOf(pre.items, last.product_id) # {}
    /\ Len(movements) < Len(pre.movements)
    /\ movements # <<>>

(* C24 Quantity changes only through stock-in and stock-out: a PATCH of a  *)
(* stock record leaves the quantity of every record and the movement log   *)
(* as they were; one that carries a quantity different from the record's   *)
(* is rejected; a rejected one leaves every record as it was.              *)
C24_PatchKeepsQuantity ==
    last.op = "update_warehouse_item"
        => /\ movements = pre.movements
           /\ DOMAIN items = DOMAIN pre.items
           /\ \A id \in DOMAIN items : items[id].quantity = pre.items[id].quantity
           /\ last.outcome # "ok" => items = pre.items
           /\ (/\ last.item_id \in DOMAIN pre.items
               /\ last.patch.quantity # Unset
               /\ last.patch.quantity # {pre.items[last.item_id].quantity})
                  => last.outcome # "ok"

(* A PATCH of a record that holds 2 has just carried the quantity 1 and    *)
(* has been rejected with 400.                                             *)
C24_Witness ==
    /\ last.op = "update_warehouse_item"
    /\ last.item_id \in DOMAIN items
    /\ last.patch.quantity = {1}
    /\ items[last.item_id].quantity = 2
    /\ last.outcome = "HTTPException"
    /\ last.detail = "400"

(* The sku a product request writes, and the products another request      *)
(* would collide with                                                      *)
SentSku(req) == Upper(CHOOSE v \in req.patch.sku : TRUE)
CarriesSku(req) == req.patch.sku \notin {Unset, NullSku}
Collides(prods, req) ==
    /\ CarriesSku(req)
    /\ \E p \in DOMAIN prods : p # req.product_id /\ prods[p] = SentSku(req)

C25_StoredSkus ==
    /\ \A p \in DOMAIN products : products[p] \in {"SKU1", "SKU2", "SKU3"}
    /\ \A p, q \in DOMAIN products : products[p] = products[q] => p = q

C25_Rejected ==
    (/\ last'.op \in {"create_product", "update_product"}
     /\ last'.op = "update_product" => last'.product_id \in DOMAIN products
     /\ Collides(products, last'))
        => /\ last'.outcome = "HTTPException"
           /\ last'.detail = "409"
           /\ UNCHANGED <<products, items, movements>>

(* C25 SKU invariant: in every state every stored sku is uppercase and no  *)
(* two products share a sku, and a create or update of a product whose     *)
(* uppercased sku is the sku of another product is rejected with 409 and   *)
(* changes nothing.                                                        *)
C25_SkuInvariant == []C25_StoredSkus /\ [][C25_Rejected]_vars

(* The catalog holds three products and an update of one of them to the    *)
(* sku of another, sent in lower case, has just been rejected.             *)
C25_Witness ==
    /\ Cardinality(DOMAIN products) = 3
    /\ last.op = "update_product"
    /\ last.product_id \in DOMAIN products
    /\ last.patch.sku = {"sku3"}
    /\ products[last.product_id] # "SKU3"
    /\ last.outcome = "HTTPException"
    /\ last.detail = "409"

(* C26 A successful stock-out returns the first record touched: a targeted *)
(* call the record of the product at the location of the request, an       *)
(* untargeted call the record of lowest id among those of the product that *)
(* held a quantity > 0 before the call; a successful call returns a        *)
(* record.                                                                 *)
C26_ReturnsFirstTouched ==
    (last.op = "stock_out" /\ last.outcome = "ok")
        => /\ last.ret \in DOMAIN items
           /\ IF last.location # None
              THEN RecordsAt(pre.items, last.product_id, last.location) = {last.ret}
              ELSE /\ last.ret \in PositiveOf(pre.items, last.product_id)
                   /\ \A id \in PositiveOf(pre.items, last.product_id) :
                          last.ret <= id

(* An untargeted stock-out has just taken from two records and returned    *)
(* the first.                                                              *)
C26_Witness ==
    /\ UntargetedOk
    /\ Len(Appended) = 2
    /\ last.ret = Appended[1].warehouse_item_id
    /\ last.ret # Appended[2].warehouse_item_id

(* The sessions that carried a stock-in of p at loc to its commit *)
StockedIn(p, loc) ==
    {s \in Sessions : /\ sess[s].pc = "done"
                      /\ sess[s].outcome = "ok"
                      /\ sess[s].req.op = "stock_in"
                      /\ sess[s].req.product_id = p
                      /\ sess[s].req.location = loc}

(* C27 Concurrent stock-in to a new location: when the two sessions have   *)
(* both committed a stock-in of the same product at the same location,     *)
(* which had no record before them, the pair has exactly one record and    *)
(* its quantity is the sum of the two requested quantities.                *)
C27_ConcurrentStockIn ==
    \A p \in DOMAIN products, loc \in Locations :
        (StockedIn(p, loc) = Sessions /\ RecordsAt(pre.items, p, loc) = {})
            => \E id \in DOMAIN items :
                   /\ RecordsAt(items, p, loc) = {id}
                   /\ items[id].quantity = sess[1].req.quantity + sess[2].req.quantity

(* C28 Every movement written has a quantity > 0, and a successful         *)
(* untargeted stock-out writes no movement for a record it took nothing    *)
(* from: the walk stops once nothing remains to deduct.                    *)
C28_PositiveMovements ==
    /\ \A i \in 1..Len(movements) : movements[i].quantity > 0
    /\ UntargetedOk
           => \A i \in 1..Len(Appended) :
                  Deducted(Appended[i].warehouse_item_id) > 0

(* An untargeted stock-out has just been served in full by the first       *)
(* record of the product, and a higher record with stock was left alone.   *)
C28_Witness ==
    /\ UntargetedOk
    /\ Len(Appended) = 1
    /\ \E id \in PositiveOf(pre.items, last.product_id) :
           /\ id > Appended[1].warehouse_item_id
           /\ Deducted(id) = 0

(* The latest request and the one before it were untargeted stock-outs of  *)
(* the same product, and the first succeeded.                              *)
C29_Split ==
    /\ UntargetedOk
    /\ last'.op = "stock_out"
    /\ last'.location = None
    /\ last'.product_id = last.product_id

(* The records after one untargeted stock-out of q of product p from its *)
SingleStockOut(its, p, q) == Walk(its, <<>>, <<>>, AvailableItems(its, p), 1, q).items

(* C29 Split invariance of the untargeted allocation: an untargeted        *)
(* stock-out of a followed by an untargeted stock-out of b of the same     *)
(* product, with a + b at most the product's total, succeeds and leaves    *)
(* every record with the quantity that one untargeted stock-out of a + b   *)
(* from the first state leaves; and a stock-out neither creates nor        *)
(* deletes a record.                                                       *)
C29_SplitInvariance ==
    [][/\ last'.op = "stock_out" => DOMAIN items' = DOMAIN items
       /\ (/\ C29_Split
           /\ last.quantity + last'.quantity <= StockOf(pre.items, last.product_id))
              => /\ last'.outcome = "ok"
                 /\ items' = SingleStockOut(pre.items, last.product_id,
                                            last.quantity + last'.quantity)]_vars

(* An untargeted stock-out has just followed a stock-out of the same       *)
(* product that emptied a record, and has taken from the next record: one  *)
(* stock-out of the sum walks both records.                                *)
C29_Witness ==
    /\ UntargetedOk
    /\ pre.movements # <<>>
    /\ pre.movements[Len(pre.movements)].movement_type = MovOUT
    /\ pre.movements[Len(pre.movements)].product_id = last.product_id
    /\ pre.items[pre.movements[Len(pre.movements)].warehouse_item_id].quantity = 0
    /\ Len(Appended) = 1
    /\ Appended[1].warehouse_item_id
           > pre.movements[Len(pre.movements)].warehouse_item_id

=============================================================================
